---- MODULE Spec2Model ----
(***************************************************************************)
(* Shopify storefront discovery and credential-capability engine.          *)
(*                                                                         *)
(* The repository holds the engine twice: as the package                   *)
(* shopify_storefront_mcp_server/ (discovery.py, main.py,                  *)
(* graphql_client.py, utils.py) and as the single file                     *)
(* shopify_storefront_mcp_server.py.  The variable impl says which of the  *)
(* two the process runs; every definition that differs between them takes  *)
(* it into account.                                                        *)
(*                                                                         *)
(* Specifications:                                                         *)
(*   SpecValidate  one call of _validate_token, probe by probe             *)
(*   Spec          one call of the tool shopify_discover                   *)
(*   SpecGateway   one call of the tool shopify_storefront_graphql         *)
(***************************************************************************)
EXTENDS Naturals, Sequences, FiniteSets

VARIABLES
  impl,        \* "package" | "single_file": the implementation that runs
  \* ---- _validate_token (SpecValidate)
  v_pc,        \* "start" | "probes" | "returned" | "off"
  results,     \* the dict results of _validate_token
  v_idx,       \* index in permission_tests of the next probe
  v_sent,      \* log: the queries posted so far, in order
  v_first,     \* log: how the liveness probe ended: "none" | "raised" | "no_marker" | "marker"
  v_denials,   \* log: names of the probes answered with an access-denied error payload
  v_failures,  \* log: names of the probes that failed otherwise (network, status, malformed)
  \* ---- discover_shopify / shopify_discover (Spec)
  d_pc,        \* "gather" | "scan" | "assets" | "capture" | "validate" | "returned" | "done" | "raised" | "off"
  max_assets,  \* the argument max_assets
  get_state,   \* the task fetch_text(url):  "pending" | "ok" | "raised" | "off"
  head_state,  \* the task fetch_head(url):  "pending" | "ok" | "raised" | "off"
  classified,  \* log: what _is_shopify returned: "none" | "true" | "false"
  result,      \* the dict result of discover_shopify
  assets,      \* the list assets (asset urls: the n-th matching tag's url is n)
  a_idx,       \* index in assets of the next asset to fetch
  loc,         \* index in Locations of the next page location to scan
  candidates,  \* the collection candidates: token -> number of times it is held
  todo,        \* what the loop over candidates has still to visit
  validations, \* log: the calls of _validate_token, in order: token and returned dict
  n_asset_gets,\* log: number of asset GET requests sent
  n_capture,   \* log: number of capture_network_tokens calls
  output,      \* what shopify_discover returns (before json.dumps)
  found_again, \* log: some token was found more than once (in one list or in several places)
  others_answer, \* the backend of this call: its answer to the probes after the listing probe
  \* ---- shopify_storefront_graphql (SpecGateway)
  g_pc,        \* "start" | "execute" | "test" | "introspect" | "done" | "off"
  ENV_STORE,   \* SHOPIFY_STORE_NAME of the environment, or None
  ENV_TOKEN,   \* SHOPIFY_STOREFRONT_ACCESS_TOKEN of the environment, or None
  mode,        \* the argument mode
  host_arg,    \* the argument host, or None
  token_arg,   \* the argument token, or None
  query,       \* the argument query, or None
  g_sent,      \* log: the requests posted to the platform API: host, token, query
  g_resp,      \* log: the last answer of the platform API, with its reason phrase
  g_out,       \* what the tool returns (before json.dumps)
  g_result,    \* the dict built by test mode (result) and by introspect mode (results)
  g_idx,       \* introspect mode: index of the next entry of test_components
  g_probe_raised, \* log: some introspection probe raised
  \* ---- concurrent tool calls sharing the HTTP client (SpecConcurrent)
  _http_client,   \* the module global: 0 for None, else the ordinal of the client held
  n_constructed,  \* log: number of httpx.AsyncClient objects constructed
  c_calls,        \* per tool call: its arguments, position, client, answers and result
  c_wire,         \* log: the requests sent, in order: call, client, host, token
  c_latest,       \* log: the call that sent the latest request (0: none)
  c_overlap,      \* log: a request was sent while another call awaited its answer
  \* ---- _is_shopify on its own (SpecClassify)
  k_pc,        \* "input" | "done" | "off"
  k_headers,   \* the headers argument: the set of header names
  k_html,      \* the html argument
  k_hit,       \* the value returned: "none" before the call, else TRUE | FALSE
  \* ---- one call of a function that touches no state (SpecGuidance, ...)
  f_pc,        \* "call" | "returned" | "off"
  f_args,      \* the arguments of the call
  f_ret        \* the value returned ("none" before the return)

v_vars == << v_pc, results, v_idx, v_sent, v_first, v_denials, v_failures >>

d_vars == << d_pc, max_assets, get_state, head_state, classified, result, assets, a_idx,
             loc, candidates, todo, validations, n_asset_gets, n_capture, output,
             found_again, others_answer >>

g_vars == << g_pc, ENV_STORE, ENV_TOKEN, mode, host_arg, token_arg, query, g_sent, g_resp,
             g_out, g_result, g_idx, g_probe_raised >>

c_vars == << _http_client, n_constructed, c_calls, c_wire, c_latest, c_overlap >>

k_vars == << k_pc, k_headers, k_html, k_hit >>

f_vars == << f_pc, f_args, f_ret >>

vars == << impl, v_vars, d_vars, g_vars, c_vars, k_vars, f_vars >>

Impls == {"package", "single_file"}

None == "None"

(***************************************************************************)
(* Sequences helpers                                                       *)
(***************************************************************************)
Range(s) == { s[i] : i \in 1..Len(s) }

Contains(s, x) == \E i \in 1..Len(s) : s[i] = x

Count(s, x) == Cardinality({ i \in 1..Len(s) : s[i] = x })

NoDup(s) == \A i, j \in 1..Len(s) : s[i] = s[j] => i = j

(***************************************************************************)
(* The upstream: what one HTTP request can come back with.                 *)
(* A response is a transport error (no response at all) or a status with a *)
(* body.  Bodies are named by what the code looks at in them:              *)
(*   schema_json    JSON object holding the text __schema                  *)
(*   schema_text    text holding __schema that is not JSON                 *)
(*   data           JSON object {"data": ...} without an "errors" key      *)
(*   errors_denied  JSON {"errors": [{"message": "Access denied ..."}]}    *)
(*   errors_other   JSON {"errors": [{"message": <another message>}]}      *)
(*   empty_json     the JSON object {}                                     *)
(*   nonjson        text that is not JSON and holds no marker              *)
(*   errors_empty   JSON {"data": null, "errors": []}                      *)
(*   errors_denied_scope  errors_denied whose error also carries           *)
(*                  extensions.requiredAccess naming the listing scope     *)
(*   errors_syntax  JSON {"errors": [{"message": "Syntax Error ..."}]}     *)
(*   json_array     JSON that is not an object: []                         *)
(***************************************************************************)
Statuses == {200, 302, 403, 430, 500}

Bodies == {"schema_json", "schema_text", "data", "errors_denied",
           "errors_other", "empty_json", "nonjson"}

NetErr == [kind |-> "neterr", status |-> 0, body |-> "none"]

Responses == {NetErr} \cup [kind : {"http"}, status : Statuses, body : Bodies]

Is2xx(status) == status >= 200 /\ status < 300

IsJson(body) == body \in {"schema_json", "data", "errors_denied", "errors_other", "empty_json",
                          "errors_empty", "json_array", "errors_denied_scope",
                          "errors_syntax"}

HasSchemaMarker(body) == body \in {"schema_json", "schema_text"}

HasErrorsKey(body) == body \in {"errors_denied", "errors_other", "errors_empty",
                                "errors_denied_scope", "errors_syntax"}

HasAccessDenied(body) == body \in {"errors_denied", "errors_denied_scope"}

Truthy(body) == body \notin {"empty_json", "json_array"}

(***************************************************************************)
(* GraphQLClient.execute: raises without host or token, on a transport     *)
(* error, on a non-success status (raise_for_status) and on a body that is *)
(* not JSON (resp.json()); otherwise returns the decoded body.             *)
(***************************************************************************)
execute(host, token, resp) ==
  IF host = None \/ token = None
    THEN [raised |-> TRUE, exc |-> "ValueError", data |-> "none"]
  ELSE IF resp.kind = "neterr"
    THEN [raised |-> TRUE, exc |-> "TransportError", data |-> "none"]
  ELSE IF ~Is2xx(resp.status)
    THEN [raised |-> TRUE, exc |-> "HTTPStatusError", data |-> "none"]
  ELSE IF ~IsJson(resp.body)
    THEN [raised |-> TRUE, exc |-> "JSONDecodeError", data |-> "none"]
  ELSE [raised |-> FALSE, exc |-> "none", data |-> resp.body]

(***************************************************************************)
(* _validate_token                                                         *)
(***************************************************************************)
schema_query == "{__schema{queryType{name}}}"

permission_tests == <<
  [name |-> "unauthenticated_read_product_listings",
   query |-> "{products(first:1){edges{node{id}}}}"],
  [name |-> "cart_create",
   query |-> "mutation{cartCreate(input:{}){cart{id}}}"],
  [name |-> "unauthenticated_read_content",
   query |-> "{shop{name description}}"],
  [name |-> "unauthenticated_read_customer",
   query |-> "mutation{customerAccessTokenCreate(input:{email:\"test@example.com\",password:\"test\"}){customerUserErrors{message}}}"],
  [name |-> "unauthenticated_read_collection_listings",
   query |-> "{collections(first:1){edges{node{id}}}}"],
  [name |-> "product_types_access",
   query |-> "{productTypes(first:1){edges{node}}}"],
  [name |-> "search_access",
   query |-> "{search(query:\"test\",types:PRODUCT,first:1){edges{node{__typename}}}}"],
  [name |-> "metafields_access",
   query |-> "{shop{metafields(first:1){edges{node{id}}}}}"] >>

ProbeNames == { permission_tests[i].name : i \in 1..Len(permission_tests) }

results_init == [valid |-> FALSE, permissions |-> <<>>, access_denied_errors |-> <<>>]

\* Whether the liveness probe raises inside the outer try.
LivenessRaises(im, resp) ==
  IF im = "package"
    THEN execute("host", "token", resp).raised
    ELSE resp.kind = "neterr"

\* The liveness test: the condition under which valid is set and the probes run.
LivenessBroken(im, resp) == TRUE

LivenessOk(im, resp) ==
  IF im = "package"
    THEN \* resp = await client.execute(...); "__schema" in json.dumps(resp)
         /\ ~execute("host", "token", resp).raised
         /\ HasSchemaMarker(execute("host", "token", resp).data)
    ELSE \* schema_resp.status_code == 200 and "__schema" in schema_resp.text
         /\ resp.kind = "http"
         /\ resp.status = 200
         /\ HasSchemaMarker(resp.body)

\* A probe that is not granted is entered in both lists.
ProbeStepBothLists(im, res, name, resp) ==
  IF resp.kind = "http" /\ resp.status = 200 /\ IsJson(resp.body) /\ Truthy(resp.body)
     /\ ~HasErrorsKey(resp.body)
    THEN [res EXCEPT !.permissions = Append(@, name)]
    ELSE [res EXCEPT !.permissions = Append(@, name),
                     !.access_denied_errors = Append(@, name)]

\* One iteration of the probe loop: what it does to results.
ProbeStep(im, res, name, resp) ==
  IF im = "package"
    THEN LET r == execute("host", "token", resp) IN
         IF r.raised
           THEN \* except Exception: results["access_denied_errors"].append(name)
                [res EXCEPT !.access_denied_errors = Append(@, name)]
         ELSE IF Truthy(r.data) /\ ~HasErrorsKey(r.data)
           THEN [res EXCEPT !.permissions = Append(@, name)]
         ELSE res
    ELSE IF resp.kind = "neterr"
           THEN res   \* except Exception: pass
         ELSE IF resp.status = 200 /\ ~IsJson(resp.body)
           THEN res   \* resp.json() raises: except Exception: pass
         ELSE IF resp.status = 200 /\ ~HasErrorsKey(resp.body)
           THEN [res EXCEPT !.permissions = Append(@, name)]
         ELSE IF resp.status = 200 /\ HasAccessDenied(resp.body)
           THEN [res EXCEPT !.access_denied_errors = Append(@, name)]
         ELSE res

\* The index the loop goes on with after the probe at i: every exception of a
\* probe is caught inside the loop, so the loop always moves to the next probe.
NextProbeAbort(im, i, resp) ==
  IF resp.kind = "neterr" \/ ~Is2xx(resp.status) \/ ~IsJson(resp.body)
    THEN Len(permission_tests) + 1
    ELSE i + 1

NextProbe(im, i, resp) == i + 1

\* The whole call, given the answer to the liveness probe and to every probe.
RECURSIVE RunProbes(_, _, _, _)
RunProbes(im, res, i, resps) ==
  IF i > Len(permission_tests) THEN res
  ELSE RunProbes(im, ProbeStep(im, res, permission_tests[i].name, resps[i]),
                 NextProbe(im, i, resps[i]), resps)

_validate_token(im, live, resps) ==
  IF LivenessRaises(im, live) \/ ~LivenessOk(im, live)
    THEN results_init
    ELSE RunProbes(im, [results_init EXCEPT !.valid = TRUE], 1, resps)

\* The claims' vocabulary for a probe's answer.
\* An explicit denial: a success status whose error payload carries the marker.
IsDenial(resp) ==
  resp.kind = "http" /\ Is2xx(resp.status) /\ HasAccessDenied(resp.body)

\* Any other failure: transport error, non-2xx status, body that is not JSON.
IsFailure(resp) ==
  \/ resp.kind = "neterr"
  \/ resp.kind = "http" /\ ~Is2xx(resp.status)
  \/ resp.kind = "http" /\ Is2xx(resp.status) /\ ~IsJson(resp.body)

(***************************************************************************)
(* Bounds of the model                                                     *)
(***************************************************************************)
\* Number of distinct token strings a page, its assets and the capture pass hold.
NumTokens == 2

\* Longest list one call of _token_candidates (or the capture pass) returns.
MaxCandLen == 2

\* Number of script/link tags of the page.
MaxTags == 2

Tokens == 1..NumTokens

RECURSIVE SeqsUpTo(_, _)
SeqsUpTo(S, n) ==
  IF n = 0 THEN { <<>> }
  ELSE LET shorter == SeqsUpTo(S, n - 1) IN
       shorter \cup { Append(s, x) : s \in { t \in shorter : Len(t) = n - 1 }, x \in S }

(***************************************************************************)
(* _is_shopify.  A header name is the sequence of its characters; "U+2011" *)
(* is the non-breaking hyphen the prefixes of HDR_PREFIXES are written     *)
(* with.  The HTML is described by the content signatures found in it.     *)
(***************************************************************************)
Lower(c) ==
  CASE c = "X" -> "x" [] c = "S" -> "s" [] c = "H" -> "h" [] c = "O" -> "o"
    [] c = "P" -> "p" [] c = "I" -> "i" [] c = "F" -> "f" [] c = "Y" -> "y"
    [] c = "T" -> "t" [] c = "A" -> "a" [] c = "G" -> "g" [] c = "E" -> "e"
    [] c = "R" -> "r" [] c = "V" -> "v" [] c = "D" -> "d"
    [] OTHER -> c

lower(s) == [i \in 1..Len(s) |-> Lower(s[i])]

startswith(s, prefix) ==
  /\ Len(s) >= Len(prefix)
  /\ \A i \in 1..Len(prefix) : s[i] = prefix[i]

HDR_PREFIXES == {
  << "x", "U+2011", "s", "h", "o", "p", "i", "f", "y" >>,
  << "x", "U+2011", "s", "h", "o", "p" >>,
  << "x", "U+2011", "s", "h", "a", "r", "d", "i", "d" >>,
  << "x", "U+2011", "s", "o", "r", "t", "i", "n", "g", "-", "h", "a", "t" >> }

\* The four patterns of HTML_MARKERS, by what they look for.
HTML_MARKERS == {"cdn_domain", "shopify_section_class", "shopify_global", "myshopify_domain"}

_is_shopify(headers, html) ==
  LET hdr_hit == \E h \in headers : \E p \in HDR_PREFIXES : startswith(lower(h), p)
      html_hit == \E rx \in HTML_MARKERS : rx \in html.signatures
  IN  hdr_hit \/ html_hit

\* Header sets a HEAD can come back with.
HeaderSets == {
  {},
  { << "S", "e", "r", "v", "e", "r" >> },
  { << "X", "-", "S", "h", "o", "p", "i", "f", "y", "-", "S", "t", "a", "g", "e" >> },
  { << "X", "U+2011", "S", "h", "o", "p" >> } }

(***************************************************************************)
(* _canonical_host.  The HTML is described by what each search finds in    *)
(* it: structured is the domain the first matching MYSHOPIFY_PATTERNS      *)
(* entry captures, shop the value assigned to Shopify.shop, loose the      *)
(* match of the legacy scan (None: no match).                              *)
(***************************************************************************)
\* A host is the sequence of its parts; str.lower() lowers each part.  The empty
\* sequence stands for no match of a search, and for the host None of a result.
NoMatch == << >>

NoHost == << >>

LowerPart(x) ==
  CASE x = "Store" -> "store"
    [] x = ".MyShopify.com" -> ".myshopify.com"
    [] OTHER -> x

LowerHost(h) == [i \in 1..Len(h) |-> LowerPart(h[i])]

_canonical_host(html, fallback) ==
  IF html.structured # NoMatch THEN LowerHost(html.structured)
  ELSE IF html.shop # NoMatch
    THEN IF Contains(html.shop, ".myshopify.com")      \* ".myshopify.com" in shop
           THEN LowerHost(html.shop)
           ELSE LowerHost(Append(html.shop, ".myshopify.com"))
  ELSE IF html.loose # NoMatch THEN LowerHost(html.loose)
  ELSE LowerHost(fallback)

\* The pages of the model.
HtmlPages == {
  [signatures |-> {}, structured |-> NoMatch, shop |-> NoMatch, loose |-> NoMatch],
  [signatures |-> {}, structured |-> NoMatch, shop |-> << "Store" >>, loose |-> NoMatch],
  [signatures |-> {"shopify_global"}, structured |-> NoMatch, shop |-> NoMatch,
   loose |-> NoMatch],
  [signatures |-> {"cdn_domain", "shopify_section_class"}, structured |-> NoMatch,
   shop |-> << "Store" >>, loose |-> NoMatch],
  [signatures |-> {"myshopify_domain"}, structured |-> << "Store", ".MyShopify.com" >>,
   shop |-> NoMatch, loose |-> << "Store", ".MyShopify.com" >>] }

\* urllib.parse.urlparse(url).netloc of the url discovery is called with: the
\* store's own myshopify address, as typed
netloc == << "Store", ".MyShopify.com" >>

(***************************************************************************)
(* The asset list: the loop over the page's script and link tags.          *)
(*   nosrc  a tag with neither src nor href                                *)
(*   asset  a tag whose src/href matches cdn.shopify or /assets/           *)
(*   plain  a tag with another src/href                                    *)
(*   asset_bad  a tag whose src/href matches and has an unbalanced bracket *)
(*              in its host ("//[cdn.shopify.com/a.js"): urljoin raises    *)
(*              ValueError for it                                          *)
(***************************************************************************)
TagKinds == {"nosrc", "asset", "plain", "asset_bad"}

RECURSIVE CollectAssets(_, _, _, _)
CollectAssets(tags, i, acc, cap) ==
  IF i > Len(tags) THEN acc
  ELSE IF tags[i] = "nosrc" THEN CollectAssets(tags, i + 1, acc, cap)   \* continue
  ELSE LET acc2 == IF tags[i] = "asset" THEN Append(acc, Len(acc) + 1) ELSE acc IN
       IF Len(acc2) >= cap THEN acc2                                    \* break
       ELSE CollectAssets(tags, i + 1, acc2, cap)

\* urllib.parse.urljoin raises in the loop: a tag of kind asset_bad is reached
\* before the loop breaks.
RECURSIVE CollectAssetsRaises(_, _, _, _)
CollectAssetsRaises(tags, i, acc, cap) ==
  IF i > Len(tags) THEN FALSE
  ELSE IF tags[i] = "nosrc" THEN CollectAssetsRaises(tags, i + 1, acc, cap)
  ELSE IF tags[i] = "asset_bad" THEN TRUE
  ELSE LET acc2 == IF tags[i] = "asset" THEN Append(acc, Len(acc) + 1) ELSE acc IN
       IF Len(acc2) >= cap THEN FALSE
       ELSE CollectAssetsRaises(tags, i + 1, acc2, cap)

(***************************************************************************)
(* Candidates.  _token_candidates returns a list that may hold a token     *)
(* several times (the context test and every initialization pattern append *)
(* it again, and a 32-character token matches two token patterns);         *)
(* discover_shopify keeps the candidates in a set.  The set is a function  *)
(* from token to the number of times it is held: 0 or 1.                   *)
(***************************************************************************)
CandLists == SeqsUpTo(Tokens, MaxCandLen)

no_candidates == [t \in Tokens |-> 0]

\* A list instead of a set: every occurrence is kept.
extend(cands, found) == [t \in Tokens |-> cands[t] + Count(found, t)]

\* candidates.update(found), and set(found) on the empty set
update(cands, found) ==
  [t \in Tokens |-> IF cands[t] > 0 \/ Contains(found, t) THEN 1 ELSE 0]

\* Whether found holds a token twice or a token cands already holds.
FoundAgain(cands, found) ==
  \E t \in Tokens : Count(found, t) > 1 \/ (Count(found, t) > 0 /\ cands[t] > 0)

\* The page locations discover_shopify scans, in order.
Locations == << "html", "json_ld", "meta", "data_attr", "config" >>

(***************************************************************************)
(* Ranking: list.sort(key=lambda x: len(x["permissions"]), reverse=True).  *)
(* Python's sort is stable, also with reverse=True: entries with the same  *)
(* key keep their order.                                                   *)
(***************************************************************************)
SortKey(x) == Len(x.permissions)

\* Ascending sort then reversal: entries with the same key change places.
InsertReversing(sorted, x) ==
  LET before == { i \in 1..Len(sorted) : SortKey(sorted[i]) > SortKey(x) }
      k == Cardinality(before)
  IN  SubSeq(sorted, 1, k) \o << x >> \o SubSeq(sorted, k + 1, Len(sorted))

\* Insert x behind every entry whose key is at least x's.
InsertStable(sorted, x) ==
  LET before == { i \in 1..Len(sorted) : SortKey(sorted[i]) >= SortKey(x) }
      k == Cardinality(before)
  IN  SubSeq(sorted, 1, k) \o << x >> \o SubSeq(sorted, k + 1, Len(sorted))

RECURSIVE SortFrom(_, _, _)
SortFrom(s, i, acc) ==
  IF i > Len(s) THEN acc ELSE SortFrom(s, i + 1, InsertStable(acc, s[i]))

sort_ranked(s) == SortFrom(s, 1, <<>>)

(***************************************************************************)
(* generate_api_guidance.  An entry of a guidance list is named by its     *)
(* "name", "limitation" or "operation" text; example_queries by its keys.  *)
(***************************************************************************)
generate_api_guidance(permissions, access_denied) ==
  LET listing == Contains(permissions, "unauthenticated_read_product_listings")
      cart == Contains(permissions, "cart_create")
      types == Contains(permissions, "product_types_access")
      avoid == SelectSeq(access_denied,
                         LAMBDA d : d = "unauthenticated_read_product_listings")
  IN  [recommended_approaches |->
         (IF listing THEN << "Direct Product Queries" >> ELSE << >>)
         \o (IF cart THEN << "Cart Operations" >> ELSE << >>),
       fallback_strategies |->
         IF ~listing /\ types THEN << "No direct product listing access" >> ELSE << >>,
       operations_to_avoid |->
         [i \in 1..Len(avoid) |-> "Direct product queries"],
       example_queries |->
         (IF listing THEN {"product_query"} ELSE {})
         \cup (IF cart THEN {"cart_create"} ELSE {})]

(***************************************************************************)
(* Spec: one call of discover_shopify(url, max_assets) and what            *)
(* shopify_discover makes of its result.                                   *)
(***************************************************************************)
result_init ==
  [shopify |-> FALSE, host |-> NoHost, tokens_valid |-> << >>, tokens_ranked |-> << >>,
   tokens_invalid |-> << >>, notes |-> << >>]

output_none == [result |-> result_init, has_api_guidance |-> FALSE, api_guidance |-> << >>]

\* What a GET or HEAD of a page or an asset can come back with.
FetchAnswers == {NetErr} \cup [kind : {"http"}, status : {200, 404, 500}, body : {"text"}]

\* What the backend answers to the probes of one token: the answer to the
\* listing probe and the answer to every other probe.  The answer to the
\* listing probe differs from token to token; the answer to the other probes is
\* one for the whole call (others_answer).
LiveAnswers == {NetErr,
                [kind |-> "http", status |-> 200, body |-> "schema_json"],
                [kind |-> "http", status |-> 200, body |-> "data"]}

ProbeAnswers == {NetErr,
                 [kind |-> "http", status |-> 200, body |-> "data"],
                 [kind |-> "http", status |-> 200, body |-> "errors_denied"],
                 [kind |-> "http", status |-> 200, body |-> "errors_other"]}

OtherAnswers == {[kind |-> "http", status |-> 200, body |-> "data"],
                 [kind |-> "http", status |-> 200, body |-> "errors_other"]}

Profile(listing, others) ==
  [i \in 1..Len(permission_tests) |-> IF i = 1 THEN listing ELSE others]

DiscoverOff ==
  /\ d_pc = "off"
  /\ max_assets = 0
  /\ get_state = "off"
  /\ head_state = "off"
  /\ classified = "none"
  /\ result = result_init
  /\ assets = << >>
  /\ a_idx = 0
  /\ loc = 0
  /\ candidates = no_candidates
  /\ todo = no_candidates
  /\ validations = << >>
  /\ n_asset_gets = 0
  /\ n_capture = 0
  /\ output = output_none
  /\ found_again = FALSE
  /\ others_answer = [kind |-> "http", status |-> 200, body |-> "data"]

no_response == [kind |-> "none", status |-> 0, body |-> "none", reason |-> ""]

out_none == [kind |-> "none", errors |-> << >>, body |-> "none"]

result_none == [kind |-> "none"]

GatewayOff ==
  /\ g_pc = "off"
  /\ ENV_STORE = None
  /\ ENV_TOKEN = None
  /\ mode = "none"
  /\ host_arg = None
  /\ token_arg = None
  /\ query = None
  /\ g_sent = << >>
  /\ g_resp = no_response
  /\ g_out = out_none
  /\ g_result = result_none
  /\ g_idx = 0
  /\ g_probe_raised = FALSE

ConcurrentOff ==
  /\ _http_client = 0
  /\ n_constructed = 0
  /\ c_calls = << >>
  /\ c_wire = << >>
  /\ c_latest = 0
  /\ c_overlap = FALSE

FunctionOff ==
  /\ f_pc = "off"
  /\ f_args = << >>
  /\ f_ret = "none"

ClassifyOff ==
  /\ k_pc = "off"
  /\ k_headers = {}
  /\ k_html = [signatures |-> {}]
  /\ k_hit = "none"

ValidateOff ==
  /\ v_pc = "off"
  /\ results = results_init
  /\ v_idx = 0
  /\ v_sent = << >>
  /\ v_first = "none"
  /\ v_denials = {}
  /\ v_failures = {}

(***************************************************************************)
(* SpecValidate: one call of _validate_token, one action per request.      *)
(***************************************************************************)
InitValidate ==
  /\ impl \in Impls
  /\ v_pc = "start"
  /\ results = results_init
  /\ v_idx = 0
  /\ v_sent = <<>>
  /\ v_first = "none"
  /\ v_denials = {}
  /\ v_failures = {}
  /\ DiscoverOff
  /\ GatewayOff
  /\ ConcurrentOff
  /\ ClassifyOff
  /\ FunctionOff

validate_liveness ==
  /\ v_pc = "start"
  /\ \E resp \in Responses :
       /\ v_sent' = Append(v_sent, schema_query)
       /\ v_first' = IF LivenessRaises(impl, resp) THEN "raised"
                     ELSE IF HasSchemaMarker(resp.body) THEN "marker"
                     ELSE "no_marker"
       /\ IF ~LivenessRaises(impl, resp) /\ LivenessOk(impl, resp)
            THEN /\ results' = [results EXCEPT !.valid = TRUE]
                 /\ v_idx' = 1
                 /\ v_pc' = "probes"
            ELSE /\ results' = results
                 /\ v_idx' = v_idx
                 /\ v_pc' = "returned"
  /\ UNCHANGED << impl, v_denials, v_failures, d_vars, g_vars, c_vars, k_vars, f_vars >>

validate_probe ==
  /\ v_pc = "probes"
  /\ v_idx <= Len(permission_tests)
  /\ \E resp \in Responses :
       LET test == permission_tests[v_idx] IN
       /\ v_sent' = Append(v_sent, test.query)
       /\ results' = ProbeStep(impl, results, test.name, resp)
       /\ v_idx' = NextProbe(impl, v_idx, resp)
       /\ v_pc' = IF v_idx' > Len(permission_tests) THEN "returned" ELSE "probes"
       /\ v_denials' = IF IsDenial(resp) THEN v_denials \cup {test.name} ELSE v_denials
       /\ v_failures' = IF IsFailure(resp) THEN v_failures \cup {test.name} ELSE v_failures
  /\ UNCHANGED << impl, v_first, d_vars, g_vars, c_vars, k_vars, f_vars >>

NextValidate == validate_liveness \/ validate_probe

SpecValidate == InitValidate /\ [][NextValidate]_vars

(***************************************************************************)
(* Spec: the discovery call                                                 *)
(***************************************************************************)
\* asyncio.gather(fetch_text(url), fetch_head(url)) has started both requests.
Init ==
  /\ impl \in Impls
  /\ ValidateOff
  /\ GatewayOff
  /\ ConcurrentOff
  /\ ClassifyOff
  /\ FunctionOff
  /\ d_pc = "gather"
  /\ max_assets \in 0..MaxTags
  /\ get_state = "pending"
  /\ head_state = "pending"
  /\ classified = "none"
  /\ result = result_init
  /\ assets = << >>
  /\ a_idx = 0
  /\ loc = 0
  /\ candidates = no_candidates
  /\ todo = no_candidates
  /\ validations = << >>
  /\ n_asset_gets = 0
  /\ n_capture = 0
  /\ output = output_none
  /\ found_again = FALSE
  /\ others_answer \in OtherAnswers

\* fetch_text: client.get, then raise_for_status.
fetch_text_raises(resp) == resp.kind = "neterr" \/ ~Is2xx(resp.status)

\* fetch_head: client.head; the status is not looked at.
fetch_head_raises(resp) == resp.kind = "neterr"

\* await asyncio.gather(...) inside try: it raises once one of the tasks has
\* raised, and returns the two results once both tasks have returned.
gather_raised(g, h) == g = "raised" \/ h = "raised"

gather_done_head_ignored(g, h) == g = "ok" /\ h \in {"ok", "raised"}

gather_done(g, h) == g = "ok" /\ h = "ok"

\* if not _is_shopify(headers, html): return result
returns_early_never(match) == FALSE

returns_early(match) == ~match

\* The GET of the page completes (also after gather has already raised: gather
\* does not cancel the other task).
fetch_text ==
  /\ get_state = "pending"
  /\ \E resp \in FetchAnswers :
       get_state' = IF fetch_text_raises(resp) THEN "raised" ELSE "ok"
  /\ UNCHANGED << impl, v_vars, g_vars, c_vars, k_vars, f_vars, others_answer, d_pc, max_assets, head_state, classified, result, assets,
                  a_idx, loc, candidates, todo, validations, n_asset_gets, n_capture,
                  output, found_again >>

\* The HEAD of the page completes.
fetch_head ==
  /\ head_state = "pending"
  /\ \E resp \in FetchAnswers :
       head_state' = IF fetch_head_raises(resp) THEN "raised" ELSE "ok"
  /\ UNCHANGED << impl, v_vars, g_vars, c_vars, k_vars, f_vars, others_answer, d_pc, max_assets, get_state, classified, result, assets,
                  a_idx, loc, candidates, todo, validations, n_asset_gets, n_capture,
                  output, found_again >>

\* gather raises as soon as one of the two tasks has raised:
\* except Exception: notes.append("initial fetch failed: ..."); return result
gather_raises ==
  /\ d_pc = "gather"
  /\ gather_raised(get_state, head_state)
  /\ result' = [result EXCEPT !.notes = Append(@, [what |-> "initial fetch failed", about |-> 0])]
  /\ d_pc' = "returned"
  /\ UNCHANGED << impl, v_vars, g_vars, c_vars, k_vars, f_vars, others_answer, max_assets, get_state, head_state, classified, assets, a_idx,
                  loc, candidates, todo, validations, n_asset_gets, n_capture, output,
                  found_again >>

\* Both tasks are done: classification, canonical host, asset list.
classify ==
  /\ d_pc = "gather"
  /\ gather_done(get_state, head_state)
  /\ \E headers \in HeaderSets, html \in HtmlPages, tags \in SeqsUpTo(TagKinds, MaxTags) :
       /\ classified' = IF _is_shopify(headers, html) THEN "true" ELSE "false"
       /\ IF returns_early(_is_shopify(headers, html))
         THEN /\ d_pc' = "returned"
              /\ UNCHANGED << result, assets, loc >>
         ELSE /\ result' = [result EXCEPT !.shopify = TRUE,
                                          !.host = _canonical_host(html, netloc)]
              /\ IF CollectAssetsRaises(tags, 1, << >>, max_assets)
                   THEN /\ d_pc' = "raised"      \* ValueError leaves the tool
                        /\ UNCHANGED << assets, loc >>
                   ELSE /\ assets' = CollectAssets(tags, 1, << >>, max_assets)
                        /\ loc' = 1
                        /\ d_pc' = "scan"
  /\ UNCHANGED << impl, v_vars, g_vars, c_vars, k_vars, f_vars, others_answer, max_assets, get_state, head_state, a_idx, candidates, todo,
                  validations, n_asset_gets, n_capture, output, found_again >>

\* One page location is scanned: candidates.update(_token_candidates(...)).
scan_location ==
  /\ d_pc = "scan"
  /\ \E found \in CandLists :
       /\ candidates' = update(candidates, found)
       /\ found_again' = (found_again \/ FoundAgain(candidates, found))
  /\ loc' = loc + 1
  /\ IF loc < Len(Locations)
       THEN UNCHANGED << d_pc, a_idx >>
       ELSE /\ a_idx' = 1
            /\ d_pc' = IF assets = << >> THEN "capture" ELSE "assets"
  /\ UNCHANGED << impl, v_vars, g_vars, c_vars, k_vars, f_vars, others_answer, max_assets, get_state, head_state, classified, result, assets,
                  todo, validations, n_asset_gets, n_capture, output >>

\* The loop over assets ends at the first asset whose fetch fails.
after_asset_abort(idx, n, failed) == IF failed THEN n + 1 ELSE idx + 1

\* Index of the asset the loop goes on with after asset idx of n, whether its
\* fetch failed or not.
after_asset(idx, n, failed) == idx + 1

\* One asset is fetched: its text is scanned, or its failure is noted.
fetch_asset ==
  /\ d_pc = "assets"
  /\ a_idx <= Len(assets)
  /\ n_asset_gets' = n_asset_gets + 1
  /\ \E resp \in FetchAnswers, found \in CandLists :
       /\ IF resp.kind = "neterr"
            THEN /\ result' = [result EXCEPT !.notes =
                                 Append(@, [what |-> "asset error", about |-> assets[a_idx]])]
                 /\ UNCHANGED << candidates, found_again >>
            ELSE /\ candidates' = update(candidates, found)
                 /\ found_again' = (found_again \/ FoundAgain(candidates, found))
                 /\ UNCHANGED result
       /\ a_idx' = after_asset(a_idx, Len(assets), resp.kind = "neterr")
  /\ d_pc' = IF a_idx' > Len(assets) THEN "capture" ELSE "assets"
  /\ UNCHANGED << impl, v_vars, g_vars, c_vars, k_vars, f_vars, others_answer, max_assets, get_state, head_state, classified, assets, loc,
                  todo, validations, n_capture, output >>

\* capture_network_tokens(url), then the loop over candidates begins; with no
\* candidate the loop body never runs: sort and return.
capture_network_tokens ==
  /\ d_pc = "capture"
  /\ n_capture' = n_capture + 1
  /\ \E resp \in FetchAnswers, found \in CandLists :
       LET raised == resp.kind = "neterr"
           cands == IF raised THEN candidates ELSE update(candidates, found)
           res == IF raised
                    THEN [result EXCEPT !.notes =
                            Append(@, [what |-> "network token capture error", about |-> 0])]
                    ELSE result
           empty == \A t \in Tokens : cands[t] = 0
       IN  /\ candidates' = cands
           /\ found_again' = (found_again \/ (~raised /\ FoundAgain(candidates, found)))
           /\ todo' = cands
           /\ result' = IF empty THEN [res EXCEPT !.tokens_ranked = sort_ranked(@)] ELSE res
           /\ d_pc' = IF empty THEN "returned" ELSE "validate"
  /\ UNCHANGED << impl, v_vars, g_vars, c_vars, k_vars, f_vars, others_answer, max_assets, get_state, head_state, classified, assets, a_idx,
                  loc, validations, n_asset_gets, output >>

\* token_info.get(key, default)
get(info, key, default) == IF key \in DOMAIN info THEN info[key] ELSE default

\* The entry carries on the permissions of the tokens ranked before it.
ranked_entry_carry(tok, validation) ==
  [token |-> tok,
   permissions |-> IF result.tokens_ranked = << >> THEN validation.permissions
                   ELSE validation.permissions \o result.tokens_ranked[1].permissions]

\* The entry appended to tokens_ranked for a valid token.
ranked_entry(tok, validation) == [token |-> tok, permissions |-> validation.permissions]

\* One iteration of "for tok in candidates" (a set: any order); after the last
\* one tokens_ranked is sorted and discover_shopify returns.
validate_next ==
  /\ d_pc = "validate"
  /\ \E tok \in Tokens, live \in LiveAnswers, listing \in ProbeAnswers :
       /\ todo[tok] > 0
       /\ LET validation == _validate_token(impl, live, Profile(listing, others_answer))
              res == IF validation.valid
                       THEN [result EXCEPT
                               !.tokens_valid = Append(@, tok),
                               !.tokens_ranked = Append(@, ranked_entry(tok, validation))]
                       ELSE [result EXCEPT !.tokens_invalid = Append(@, tok)]
              left == [todo EXCEPT ![tok] = @ - 1]
              finished == \A t \in Tokens : left[t] = 0
          IN  /\ validations' = Append(validations, [token |-> tok, validation |-> validation])
              /\ todo' = left
              /\ result' = IF finished THEN [res EXCEPT !.tokens_ranked = sort_ranked(@)]
                           ELSE res
              /\ d_pc' = IF finished THEN "returned" ELSE "validate"
  /\ UNCHANGED << impl, v_vars, g_vars, c_vars, k_vars, f_vars, others_answer, max_assets, get_state, head_state, classified, assets, a_idx,
                  loc, candidates, n_asset_gets, n_capture >>
  /\ UNCHANGED << output, found_again >>

\* Guidance only for the ranked tokens that were granted a permission.
api_guidance_of_permitted(ranked) ==
  LET permitted == SelectSeq(ranked, LAMBDA r : r.permissions # << >>)
  IN  [i \in 1..Len(permitted) |->
         [token |-> permitted[i].token,
          guidance |-> generate_api_guidance(permitted[i].permissions, << >>)]]

\* shopify_discover: api_guidance for every ranked token when a token is valid.
api_guidance_of(ranked) ==
  [i \in 1..Len(ranked) |->
     [token |-> ranked[i].token,
      guidance |-> generate_api_guidance(get(ranked[i], "permissions", << >>),
                                         get(ranked[i], "access_denied_errors", << >>))]]

shopify_discover ==
  /\ d_pc = "returned"
  /\ output' = IF result.tokens_valid # << >>
                 THEN [result |-> result, has_api_guidance |-> TRUE,
                       api_guidance |-> api_guidance_of(result.tokens_ranked)]
                 ELSE [result |-> result, has_api_guidance |-> FALSE, api_guidance |-> << >>]
  /\ d_pc' = "done"
  /\ UNCHANGED << impl, v_vars, g_vars, c_vars, k_vars, f_vars, others_answer, max_assets, get_state, head_state, classified, result, assets,
                  a_idx, loc, candidates, todo, validations, n_asset_gets, n_capture,
                  found_again >>

Next ==
  \/ fetch_text
  \/ fetch_head
  \/ gather_raises
  \/ classify
  \/ scan_location
  \/ fetch_asset
  \/ capture_network_tokens
  \/ validate_next
  \/ shopify_discover

Spec == Init /\ [][Next]_vars

(***************************************************************************)
(* shopify_storefront_graphql: the query execution gateway                 *)
(***************************************************************************)
\* f"{ENV_STORE}.myshopify.com"
env_host(store) ==
  CASE store = "env-store" -> "env-store.myshopify.com"
    [] OTHER -> None

\* The environment's store is taken first, the argument only without one.
resolve_host_env_first(h, store) ==
  IF store # None THEN env_host(store) ELSE h

\* host = host or (f"{ENV_STORE}.myshopify.com" if ENV_STORE else None)
resolve_host(h, store) ==
  IF h # None THEN h ELSE IF store # None THEN env_host(store) ELSE None

\* token = token or ENV_TOKEN
resolve_token(t, env_token) == IF t # None THEN t ELSE env_token

\* The reason phrase a status line carries by default.
std_reason(status) ==
  CASE status = 200 -> "OK"
    [] status = 302 -> "Found"
    [] status = 403 -> "Forbidden"
    [] status = 430 -> "Security Rejection"
    [] status = 500 -> "Internal Server Error"
    [] OTHER -> ""

\* The bodies the gateway tells apart: test mode looks at the value of "errors".
GatewayBodies == Bodies \cup {"errors_empty", "json_array", "errors_denied_scope",
                               "errors_syntax"}

\* What the platform API can answer: a response of Responses with the reason
\* phrase of its status line, which may be empty (HTTP/2 has none).
GatewayAnswers ==
  { [kind |-> "neterr", status |-> 0, body |-> "none", reason |-> ""] }
  \cup { [kind |-> "http", status |-> st, body |-> b, reason |-> r] :
           st \in Statuses, b \in GatewayBodies, r \in {"", "std"} }

reason_of(resp) == IF resp.reason = "std" THEN std_reason(resp.status) ELSE ""

plain(resp) == [kind |-> resp.kind, status |-> resp.status, body |-> resp.body]

\* A message of an error object: its fixed text, and the status and reason
\* phrase formatted into it (0 and "" when it has none).
message(text) == [text |-> text, status |-> 0, reason |-> ""]

\* str(exc) of the exception GraphQLClient.execute raises.  httpx formats an
\* HTTPStatusError as "<class> '<status> <reason>' for url '<url>' ...", the
\* class being chosen by the hundreds of the status.
str_exc(exc, resp) ==
  CASE exc = "ValueError" -> message("Missing host and/or token")
    [] exc = "TransportError" -> message("<transport error text>")
    [] exc = "JSONDecodeError" -> message("Expecting value: line 1 column 1 (char 0)")
    [] exc = "HTTPStatusError" ->
         [text |-> IF resp.status >= 500 THEN "Server error '{status} {reason}' for url"
                   ELSE IF resp.status >= 400 THEN "Client error '{status} {reason}' for url"
                   ELSE IF resp.status >= 300 THEN "Redirect response '{status} {reason}' for url"
                   ELSE "Informational response '{status} {reason}' for url",
          status |-> resp.status,
          reason |-> reason_of(resp)]

error_object(msg) == [kind |-> "errors", errors |-> << msg >>, body |-> "none"]

\* The result of execute mode for the answer resp of the platform API.
execute_mode(im, host, token, resp) ==
  IF im = "package"
    THEN LET r == execute(host, token, plain(resp)) IN
         IF r.raised
           THEN error_object(str_exc(r.exc, resp))        \* {"errors": [{"message": str(exc)}]}
           ELSE [kind |-> "upstream", errors |-> << >>, body |-> r.data]
    ELSE IF resp.kind = "neterr"
           THEN error_object(message("Unexpected error: <transport error text>"))
         ELSE IF ~Is2xx(resp.status)
           THEN IF resp.status = 430
                  THEN error_object(message("Shopify Security Rejection"))
                  ELSE error_object([text |-> "HTTP {status}", status |-> resp.status,
                                     reason |-> ""])
         ELSE [kind |-> "upstream", errors |-> << >>, body |-> resp.body]   \* resp.text

\* response_json.get("data")
DataField(body) == IF body \in {"data", "schema_json"} THEN "payload" ELSE None

\* response_json.get("errors")
ErrorsField(body) ==
  CASE body = "errors_denied" -> "denied_list"
    [] body = "errors_other" -> "other_list"
    [] body = "errors_empty" -> "empty_list"
    [] body = "errors_denied_scope" -> "denied_scope_list"
    [] body = "errors_syntax" -> "syntax_list"
    [] OTHER -> None

\* The body is a JSON object, so that .get can be called on it.
IsJsonObject(body) == IsJson(body) /\ body # "json_array"

\* "products" in query
MentionsProducts(q) == q = "{products(first:1){edges{node{id}}}}"

\* analyze_errors_and_suggest: the suggestions it gives.  The single-file server
\* asks for the required scope in the extensions of an Access denied error, which
\* the errors_denied body does not carry, and knows the Syntax Error message;
\* the package looks at the Access denied message only.
analyze_errors_and_suggest(im, q, errors) ==
  LET denied == IF im = "package"
                  THEN errors \in {"denied_list", "denied_scope_list"}
                  ELSE errors = "denied_scope_list"
  IN  [suggestions |->
         IF denied /\ MentionsProducts(q)
           THEN << "Token lacks permissions to access products directly. Try using search instead." >>
         ELSE IF im = "single_file" /\ errors = "syntax_list"
           THEN << "GraphQL syntax error in query. Check for missing brackets or commas." >>
         ELSE << >>,
       alternative_queries |->
         IF im = "single_file" /\ denied /\ MentionsProducts(q)
           THEN << "productTypes then search" >> ELSE << >>]

\* The try block of test mode raises: the post, its status, or its decoding.
test_raises(im, hst, tok, resp) ==
  IF im = "package"
    THEN execute(hst, tok, plain(resp)).raised \/ ~IsJsonObject(resp.body)
    ELSE resp.kind = "neterr" \/ ~IsJsonObject(resp.body)

test_success_always(im, resp) == TRUE

\* The condition under which test mode sets success.
test_success(im, resp) ==
  IF im = "package"
    THEN ErrorsField(resp.body) = None                  \* data.get("errors") is None
    ELSE /\ resp.status = 200                           \* status 200 and not errors
         /\ ErrorsField(resp.body) \in {None, "empty_list"}

\* str(exc) in the except clause of test mode.
test_exc(im, hst, tok, resp) ==
  IF im = "package" /\ execute(hst, tok, plain(resp)).raised
    THEN str_exc(execute(hst, tok, plain(resp)).exc, resp)
  ELSE IF resp.kind = "neterr" THEN message("<transport error text>")
  ELSE IF ~IsJson(resp.body) THEN message("Expecting value: line 1 column 1 (char 0)")
  ELSE message("'list' object has no attribute 'get'")

\* The dict result of test mode for the answer resp of the platform API.
test_mode(im, hst, tok, q, resp) ==
  IF test_raises(im, hst, tok, resp)
    THEN [success |-> FALSE,
          data |-> None,
          errors |-> << test_exc(im, hst, tok, resp) >>,
          guidance |-> [suggestion |-> "Network or server error occurred"]]
  ELSE IF test_success(im, resp)
    THEN [success |-> TRUE,
          data |-> DataField(resp.body),
          errors |-> ErrorsField(resp.body),
          guidance |-> None]
  ELSE [success |-> FALSE,
        data |-> DataField(resp.body),
        errors |-> ErrorsField(resp.body),
        guidance |-> analyze_errors_and_suggest(im, q, ErrorsField(resp.body))]

\* test_components of introspect mode: 6 probes in the package, 9 in the
\* single-file server.
test_components(im) ==
  << [name |-> "shop", query |-> "{shop{name}}"],
     [name |-> "products", query |-> "{products(first:1){edges{node{id}}}}"],
     [name |-> "collections", query |-> "{collections(first:1){edges{node{id}}}}"],
     [name |-> "productTypes", query |-> "{productTypes(first:1){edges{node}}}"],
     [name |-> "search", query |-> "{search(query:\"test\",types:PRODUCT,first:1){edges{node{__typename}}}}"],
     [name |-> "cart_create", query |-> "mutation{cartCreate(input:{}){cart{id}}}"] >>
  \o IF im = "package" THEN << >>
     ELSE << [name |-> "checkout_create", query |-> "mutation{checkoutCreate(input:{}){checkout{id}}}"],
             [name |-> "customer_create", query |-> "mutation{customerCreate(input:{email:\"test@example.com\",password:\"test\"}){customerUserErrors{message}}}"],
             [name |-> "product_recommendations", query |-> "{productRecommendations(productId:\"gid://shopify/Product/1\"){id}}"] >>

\* The answers a probe of introspect mode is checked with: no answer, a success
\* status and a client-error status, each with every body.
IntrospectAnswers ==
  { r \in GatewayAnswers : r.reason = "" /\ r.status \in {0, 200, 403} }

introspect_init == [accessible_components |-> << >>, inaccessible_components |-> << >>]

\* The try block of one introspection probe raises.
introspect_raises(im, hst, tok, resp) ==
  IF im = "package"
    THEN execute(hst, tok, plain(resp)).raised \/ ~IsJsonObject(resp.body)
    ELSE resp.kind = "neterr" \/ ~IsJsonObject(resp.body)

\* The probe counts as accessible.
introspect_accessible(im, resp) ==
  IF im = "package"
    THEN ErrorsField(resp.body) \in {None, "empty_list"}     \* not data.get("errors")
    ELSE resp.status = 200 /\ ~HasAccessDenied(resp.body)

introspect_step_both(im, hst, tok, res, name, resp) ==
  [res EXCEPT !.accessible_components = Append(@, name),
              !.inaccessible_components = Append(@, name)]

\* One iteration of the loop over test_components.
introspect_step(im, hst, tok, res, name, resp) ==
  IF introspect_raises(im, hst, tok, resp)
    THEN [res EXCEPT !.inaccessible_components = Append(@, name)]
  ELSE IF introspect_accessible(im, resp)
    THEN [res EXCEPT !.accessible_components = Append(@, name)]
  ELSE [res EXCEPT !.inaccessible_components = Append(@, name)]

guidance_listing_first(im, accessible, inaccessible) ==
  [summary |-> "This token has good product access capabilities.",
   recommended_workflow |-> << "1. Query products directly",
                               "2. Get variant IDs from product queries",
                               "3. Create cart with selected variants" >>,
   warnings |-> << >>]

generate_guidance_from_components(im, accessible, inaccessible) ==
  IF Contains(accessible, "products")
    THEN [summary |-> "This token has good product access capabilities.",
          recommended_workflow |-> << "1. Query products directly",
                                      "2. Get variant IDs from product queries",
                                      "3. Create cart with selected variants" >>,
          warnings |-> << >>]
  ELSE IF Contains(accessible, "productTypes") /\ Contains(accessible, "search")
    THEN [summary |-> "This token has limited access but can discover products via search.",
          recommended_workflow |->
            << "1. Query product types to discover categories",
               "2. Use search with product types to find products",
               "3. Extract variant IDs from search results" >>
            \o IF im = "package" THEN << >>
               ELSE << "4. Create cart with discovered variant IDs" >>,
          warnings |-> << >>]
  ELSE IF Contains(accessible, "cart_create") /\ ~Contains(accessible, "products")
    THEN [summary |-> "This token can only create carts but cannot access products directly.",
          recommended_workflow |->
            IF im = "package" THEN << >>
            ELSE << "1. Try to discover products through alternative means",
                    "2. If product discovery fails, you'll need to know variant IDs from another source",
                    "3. Create cart with known variant IDs only" >>,
          warnings |-> << "Product discovery is severely limited. You may need variant IDs from another source." >>]
  ELSE [summary |-> "", recommended_workflow |-> << >>, warnings |-> << >>]

\* results after the loop: the guidance is added.
introspect_finish(im, res) ==
  [accessible_components |-> res.accessible_components,
   inaccessible_components |-> res.inaccessible_components,
   workflow_guidance |-> generate_guidance_from_components(
                           im, res.accessible_components, res.inaccessible_components)]

GatewayModes == {"execute", "test", "introspect", "bogus"}

HostArgs == {None, "arg-store.myshopify.com"}

TokenArgs == {None, "arg-token"}

QueryArgs == {None, "", "{shop{name}}", "{products(first:1){edges{node{id}}}}"}

InitGateway ==
  /\ impl \in Impls
  /\ ValidateOff
  /\ DiscoverOff
  /\ ConcurrentOff
  /\ ClassifyOff
  /\ FunctionOff
  /\ g_pc = "start"
  /\ ENV_STORE \in {None, "env-store"}
  /\ ENV_TOKEN \in {None, "env-token"}
  /\ mode \in GatewayModes
  /\ host_arg \in HostArgs
  /\ token_arg \in TokenArgs
  /\ query \in QueryArgs
  /\ g_sent = << >>
  /\ g_resp = no_response
  /\ g_out = out_none
  /\ g_result = result_none
  /\ g_idx = 0
  /\ g_probe_raised = FALSE

host == resolve_host(host_arg, ENV_STORE)

token == resolve_token(token_arg, ENV_TOKEN)

result_object == [kind |-> "result", errors |-> << >>, body |-> "none"]

\* The query is taken as given even when there is none.
query_missing_never(q) == FALSE

\* not query
query_missing(q) == q \in {None, ""}

\* The call up to its first request: the checks of host, token, mode and query.
gateway_enter ==
  /\ g_pc = "start"
  /\ IF host = None \/ token = None
       THEN /\ g_out' = error_object(message("Missing host and/or token"))
            /\ g_pc' = "done"
            /\ UNCHANGED << g_result, g_idx >>
     ELSE IF mode = "execute"
       THEN /\ IF query_missing(query)
                 THEN /\ g_out' = error_object(message("Query is required for execute mode"))
                      /\ g_pc' = "done"
                 ELSE /\ g_pc' = "execute"
                      /\ UNCHANGED g_out
            /\ UNCHANGED << g_result, g_idx >>
     ELSE IF mode = "test"
       THEN /\ IF query_missing(query)
                 THEN /\ g_out' = error_object(message("Query is required for test mode"))
                      /\ g_pc' = "done"
                 ELSE /\ g_pc' = "test"
                      /\ UNCHANGED g_out
            /\ UNCHANGED << g_result, g_idx >>
     ELSE IF mode = "introspect"
       THEN /\ g_pc' = "introspect"
            /\ g_result' = introspect_init
            /\ g_idx' = 1
            /\ UNCHANGED g_out
     ELSE /\ g_out' = error_object(message(
                      IF impl = "package" THEN "Invalid mode: {mode}"
                      ELSE "Invalid mode: {mode}. Must be one of: execute, test, introspect"))
          /\ g_pc' = "done"
          /\ UNCHANGED << g_result, g_idx >>
  /\ UNCHANGED << impl, v_vars, d_vars, c_vars, k_vars, f_vars, ENV_STORE, ENV_TOKEN, mode, host_arg, token_arg,
                  query, g_sent, g_resp, g_probe_raised >>

\* execute mode: the operation is posted and its answer returned or translated.
gateway_execute ==
  /\ g_pc = "execute"
  /\ \E resp \in GatewayAnswers :
       /\ g_sent' = Append(g_sent, [host |-> host, token |-> token, query |-> query])
       /\ g_resp' = [resp EXCEPT !.reason = reason_of(resp)]
       /\ g_out' = execute_mode(impl, host, token, resp)
  /\ g_pc' = "done"
  /\ UNCHANGED << impl, v_vars, d_vars, c_vars, k_vars, f_vars, ENV_STORE, ENV_TOKEN, mode, host_arg, token_arg,
                  query, g_result, g_idx, g_probe_raised >>

\* test mode: the operation is posted and the dict result is returned.
gateway_test ==
  /\ g_pc = "test"
  /\ \E resp \in GatewayAnswers :
       /\ g_sent' = Append(g_sent, [host |-> host, token |-> token, query |-> query])
       /\ g_resp' = [resp EXCEPT !.reason = reason_of(resp)]
       /\ g_result' = test_mode(impl, host, token, query, resp)
  /\ g_out' = result_object
  /\ g_pc' = "done"
  /\ UNCHANGED << impl, v_vars, d_vars, c_vars, k_vars, f_vars, ENV_STORE, ENV_TOKEN, mode, host_arg, token_arg,
                  query, g_idx, g_probe_raised >>

\* introspect mode: one probe of test_components is posted and filed; after the
\* last one the guidance is generated and results is returned.
gateway_introspect ==
  /\ g_pc = "introspect"
  /\ g_idx <= Len(test_components(impl))
  /\ \E resp \in IntrospectAnswers :
       LET comp == test_components(impl)[g_idx]
           res == introspect_step(impl, host, token, g_result, comp.name, resp)
       IN  /\ g_sent' = Append(g_sent, [host |-> host, token |-> token, query |-> comp.query])
           /\ g_probe_raised' = (g_probe_raised \/ introspect_raises(impl, host, token, resp))
           /\ IF g_idx = Len(test_components(impl))
                THEN /\ g_result' = introspect_finish(impl, res)
                     /\ g_out' = result_object
                     /\ g_pc' = "done"
                ELSE /\ g_result' = res
                     /\ UNCHANGED << g_out, g_pc >>
  /\ g_idx' = g_idx + 1
  /\ UNCHANGED << impl, v_vars, d_vars, c_vars, k_vars, f_vars, ENV_STORE, ENV_TOKEN, mode, host_arg, token_arg,
                  query, g_resp >>

NextGateway ==
  \/ gateway_enter
  \/ gateway_execute
  \/ gateway_test
  \/ gateway_introspect

SpecGateway == InitGateway /\ [][NextGateway]_vars

(***************************************************************************)
(* Concurrent tool calls.  The tools are coroutines of one event loop: a   *)
(* call runs without interruption from one await of network I/O to the     *)
(* next.  get_http_client holds no such await, so its test and assignment  *)
(* of the global are one step together with the sending of the request     *)
(* that follows it.  A call is an execute-mode gateway call (one post) or  *)
(* a discovery call (the page fetch, then get_http_client again and an     *)
(* asset GET).                                                             *)
(***************************************************************************)
NumCalls == 2

Calls == 1..NumCalls

\* get_http_client_fresh constructs a client at every call.
get_http_client_fresh(client, n) == [client |-> n + 1, constructed |-> n + 1]

\* get_http_client: the global after the call (also the value returned) and the
\* number of clients constructed so far.
get_http_client(client, n) ==
  IF client = 0
    THEN [client |-> n + 1, constructed |-> n + 1]
    ELSE [client |-> client, constructed |-> n]

\* Credentials taken from the call that sent the latest request.
request_headers_latest(cs, i, latest) ==
  IF latest = 0 THEN [host |-> cs[i].host, token |-> cs[i].token]
  ELSE [host |-> cs[latest].host, token |-> cs[latest].token]

\* Host of the URL and token of the header of a request of call i: those of the
\* GraphQLClient object the call constructed (package), of the call's local
\* variables (single file).
request_headers(cs, i, latest) == [host |-> cs[i].host, token |-> cs[i].token]

\* The arguments a call can be made with.
CallArgs ==
  { [kind |-> "execute", host |-> h, token |-> t] :
      h \in {"a.myshopify.com", "b.myshopify.com"}, t \in {"token-a", "token-b"} }
  \cup { [kind |-> "discover", host |-> None, token |-> None] }

\* The answers the concurrent calls are checked with.
ConcurrentAnswers ==
  { r \in GatewayAnswers :
      /\ r.reason = ""
      /\ r.status \in {0, 200, 430}
      /\ r.body \in {"none", "data", "nonjson"} }

\* The answers to the requests of a call: the answers of the platform API for a
\* gateway call; for a discovery call a page, whose content plays no part here.
answers_for(kind) ==
  IF kind = "execute" THEN ConcurrentAnswers
  ELSE { [kind |-> "http", status |-> 200, body |-> "nonjson", reason |-> ""] }

\* Number of requests a call makes.
requests_of(kind) == IF kind = "discover" THEN 2 ELSE 1

new_call(args) ==
  [kind |-> args.kind, host |-> args.host, token |-> args.token,
   pc |-> "ready", client |-> 0, answers |-> << >>, out |-> out_none]

InitConcurrent ==
  /\ impl \in Impls
  /\ ValidateOff
  /\ DiscoverOff
  /\ GatewayOff
  /\ ClassifyOff
  /\ FunctionOff
  /\ _http_client = 0
  /\ n_constructed = 0
  /\ c_calls \in [Calls -> { new_call(a) : a \in CallArgs }]
  /\ c_wire = << >>
  /\ c_latest = 0
  /\ c_overlap = FALSE

\* Call i runs up to its next await of the network: it obtains the shared client
\* and sends its request.
c_request(i) ==
  /\ c_calls[i].pc = "ready"
  /\ LET got == get_http_client(_http_client, n_constructed)
         hdr == request_headers(c_calls, i, c_latest)
     IN  /\ _http_client' = got.client
         /\ n_constructed' = got.constructed
         /\ c_calls' = [c_calls EXCEPT ![i].client = got.client, ![i].pc = "waiting"]
         /\ c_wire' = Append(c_wire, [call |-> i, client |-> got.client,
                                      host |-> hdr.host, token |-> hdr.token])
  /\ c_latest' = i
  /\ c_overlap' = (c_overlap \/ \E j \in Calls : j # i /\ c_calls[j].pc = "waiting")
  /\ UNCHANGED << impl, v_vars, d_vars, g_vars, k_vars, f_vars >>

\* The answer to the request of call i arrives and the call runs on: to its
\* next request, or to its return.
c_response(i) ==
  /\ c_calls[i].pc = "waiting"
  /\ \E resp \in answers_for(c_calls[i].kind) :
       LET answers == Append(c_calls[i].answers, resp) IN
       IF Len(answers) < requests_of(c_calls[i].kind)
         THEN c_calls' = [c_calls EXCEPT ![i].answers = answers, ![i].pc = "ready"]
         ELSE c_calls' = [c_calls EXCEPT
                ![i].answers = answers,
                ![i].pc = "done",
                ![i].out = IF c_calls[i].kind = "execute"
                             THEN execute_mode(impl, c_calls[i].host, c_calls[i].token, resp)
                             ELSE result_object]
  /\ UNCHANGED << impl, v_vars, d_vars, g_vars, k_vars, f_vars, _http_client, n_constructed, c_wire,
                  c_latest, c_overlap >>

NextConcurrent == \E i \in Calls : c_request(i) \/ c_response(i)

SpecConcurrent == InitConcurrent /\ [][NextConcurrent]_vars

(***************************************************************************)
(* SpecClassify: one call of _is_shopify on each pair of arguments.        *)
(***************************************************************************)
\* Header names a response can carry: a name sent over HTTP is made of ASCII
\* token characters, so its hyphen is "-", never the U+2011 of HDR_PREFIXES.
HeaderNames == {
  << "S", "e", "r", "v", "e", "r" >>,
  << "X", "-", "S", "h", "o", "p", "i", "f", "y", "-", "S", "t", "a", "g", "e" >>,
  << "x", "-", "s", "h", "a", "r", "d", "i", "d" >>,
  << "X", "-", "S", "o", "r", "t", "i", "n", "g", "-", "H", "a", "t" >>,
  << "X", "-", "S", "h", "o", "p", "I", "d" >> }

InitClassify ==
  /\ impl \in Impls
  /\ ValidateOff
  /\ DiscoverOff
  /\ GatewayOff
  /\ ConcurrentOff
  /\ FunctionOff
  /\ k_pc = "input"
  /\ k_headers \in SUBSET HeaderNames
  /\ k_html \in HtmlPages
  /\ k_hit = "none"

is_shopify_call ==
  /\ k_pc = "input"
  /\ k_hit' = _is_shopify(k_headers, k_html)
  /\ k_pc' = "done"
  /\ UNCHANGED << impl, v_vars, d_vars, g_vars, c_vars, f_vars, k_headers, k_html >>

NextClassify == is_shopify_call

SpecClassify == InitClassify /\ [][NextClassify]_vars

(***************************************************************************)
(* SpecGuidance: one call of generate_api_guidance on each pair of         *)
(* arguments.  A list of names is given in the order of the probe catalog, *)
(* the order _validate_token fills its lists in.                           *)
(***************************************************************************)
NamesIn(S) ==
  LET names == [i \in 1..Len(permission_tests) |-> permission_tests[i].name]
  IN  SelectSeq(names, LAMBDA n : n \in S)

\* The names a denied list is drawn from.
DeniedNames == {"unauthenticated_read_product_listings", "cart_create"}

OtherOff ==
  /\ ValidateOff
  /\ DiscoverOff
  /\ GatewayOff
  /\ ConcurrentOff
  /\ ClassifyOff

InitGuidance ==
  /\ impl \in Impls
  /\ OtherOff
  /\ f_pc = "call"
  /\ \E P \in SUBSET ProbeNames, D \in SUBSET DeniedNames :
       /\ P \cap D = {}
       /\ f_args = [permissions |-> NamesIn(P), access_denied |-> NamesIn(D)]
  /\ f_ret = "none"

guidance_call ==
  /\ f_pc = "call"
  /\ f_ret' = generate_api_guidance(f_args.permissions, f_args.access_denied)
  /\ f_pc' = "returned"
  /\ UNCHANGED << impl, v_vars, d_vars, g_vars, c_vars, k_vars, f_args >>

NextGuidance == guidance_call

SpecGuidance == InitGuidance /\ [][NextGuidance]_vars

(***************************************************************************)
(* SpecCanonical: one call of _canonical_host on each page and fallback.   *)
(***************************************************************************)
\* What the searches of _canonical_host can find in one page.  A domain the
\* structured patterns match is matched by the legacy scan too; a Shopify.shop
\* value the structured patterns do not match although it carries the suffix
\* has a character outside [a-zA-Z0-9-] in its name, "my_store".
CanonicalPages ==
  { [structured |-> st, shop |-> sh, loose |-> lo] :
      st \in { NoMatch, << "Store", ".MyShopify.com" >>, << "other", ".myshopify.com" >> },
      sh \in { NoMatch, << "Store" >>, << "my_store", ".MyShopify.com" >>,
               << "my_store", ".myshopify.com" >> },
      lo \in { NoMatch, << "Store", ".MyShopify.com" >> } }

ConsistentPage(html) ==
  /\ html.structured # NoMatch => html.loose # NoMatch
  /\ Len(html.shop) = 2 => html.loose # NoMatch

\* urllib.parse.urlparse(url).netloc, the fallback argument.
Netlocs == { netloc, << "store", ".myshopify.com" >>, << "shop.example.com" >> }

InitCanonical ==
  /\ impl \in Impls
  /\ OtherOff
  /\ f_pc = "call"
  /\ \E html \in CanonicalPages, fallback \in Netlocs :
       /\ ConsistentPage(html)
       /\ f_args = [html |-> html, fallback |-> fallback]
  /\ f_ret = "none"

canonical_host_call ==
  /\ f_pc = "call"
  /\ f_ret' = _canonical_host(f_args.html, f_args.fallback)
  /\ f_pc' = "returned"
  /\ UNCHANGED << impl, v_vars, d_vars, g_vars, c_vars, k_vars, f_args >>

NextCanonical == canonical_host_call

SpecCanonical == InitCanonical /\ [][NextCanonical]_vars

(***************************************************************************)
(* SpecCandidates: one call of _token_candidates on each text.  A text is  *)
(* the sequence of its token-shaped matches, in the order they stand in    *)
(* it; a match is described by what stands in the 100 characters on each   *)
(* side of it:                                                             *)
(*   shape    "hex32" (matched by the first two TOKEN_PATTERNS), "hex40"   *)
(*            (by the second only)                                         *)
(*   keyword  a word of the text in the window ("none": no such word)      *)
(*   call     the client-initialization call written in the window         *)
(*   inside   the match stands inside the braces or parentheses of call    *)
(***************************************************************************)
MaxMatches == 2

TOKEN_PATTERNS == << "hex32", "hex24-64" >>

pattern_matches(pattern, shape) == pattern = "hex24-64" \/ shape = "hex32"

token_contexts ==
  { "storefront", "token", "access_token", "accesstoken", "apikey", "api_key", "shopify",
    "graphql", "storefrontaccesstoken", "x-shopify", "publicaccesstoken", "client_id",
    "clientid" }

\* The text each entry of init_patterns has to find, letter case included.
init_patterns ==
  << "ShopifyBuy.buildClient({", "createClient({", "Shopify.loadFeatures({", "new Client({",
     "fetch(../api/" >>

\* text.lower() of the calls and words of a text.
lower_text(x) ==
  CASE x = "ShopifyBuy.buildClient({" -> "shopifybuy.buildclient({"
    [] x = "createClient({" -> "createclient({"
    [] x = "Shopify.loadFeatures({" -> "shopify.loadfeatures({"
    [] x = "new Client({" -> "new client({"
    [] x = "Token" -> "token"
    [] OTHER -> x

\* ctx in window, for a window holding the word and the call given
ctx_in(ctx, word, call) ==
  \/ ctx = word
  \/ ctx = "shopify" /\ call \in {"shopifybuy.buildclient({", "shopify.loadfeatures({"}

\* re.search(init, window): the patterns are compiled without re.I
re_search(init, call) == init = call

\* window = lower[max(0, m.start() - 100) : m.end() + 100]
window(m) == [word |-> lower_text(m.keyword), call |-> lower_text(m.call)]

\* What one match adds to candidates.
promote(m) ==
  LET w == window(m)
      hits == SelectSeq(init_patterns, LAMBDA init : re_search(init, w.call))
  IN  (IF \E ctx \in token_contexts : ctx_in(ctx, w.word, w.call)
         THEN << m.token >> ELSE << >>)
      \o [i \in 1..Len(hits) |-> m.token]

RECURSIVE finditer(_, _, _)
finditer(pattern, text, i) ==
  IF i > Len(text) THEN << >>
  ELSE (IF pattern_matches(pattern, text[i].shape) THEN promote(text[i]) ELSE << >>)
       \o finditer(pattern, text, i + 1)

_token_candidates(text) ==
  finditer(TOKEN_PATTERNS[1], text, 1) \o finditer(TOKEN_PATTERNS[2], text, 1)

Matches ==
  { [token |-> t, shape |-> sh, keyword |-> k, call |-> c, inside |-> ins] :
      t \in Tokens, sh \in {"hex32", "hex40"}, k \in {"none", "Token"},
      c \in {"none"} \cup Range(init_patterns), ins \in BOOLEAN }

InitCandidates ==
  /\ impl \in Impls
  /\ OtherOff
  /\ f_pc = "call"
  /\ \E text \in SeqsUpTo({ m \in Matches : m.inside => m.call # "none" }, MaxMatches) :
       f_args = [text |-> text]
  /\ f_ret = "none"

token_candidates_call ==
  /\ f_pc = "call"
  /\ f_ret' = _token_candidates(f_args.text)
  /\ f_pc' = "returned"
  /\ UNCHANGED << impl, v_vars, d_vars, g_vars, c_vars, k_vars, f_args >>

NextCandidates == token_candidates_call

SpecCandidates == InitCandidates /\ [][NextCandidates]_vars

(***************************************************************************)
(* Properties of the discovery call (Spec)                                 *)
(***************************************************************************)
NoTokens(res) ==
  /\ res.tokens_valid = << >>
  /\ res.tokens_ranked = << >>
  /\ res.tokens_invalid = << >>

Returned == d_pc \in {"returned", "done"}

\* C1: whenever the classifier has returned false, discover_shopify has returned,
\* the result has shopify = false, no host and three empty token lists, and no
\* asset was fetched, no capture pass was run and no token was validated.
C1_NonMatchIsEmpty ==
  classified = "false" =>
    /\ Returned
    /\ result.shopify = FALSE
    /\ result.host = NoHost
    /\ NoTokens(result)
    /\ n_asset_gets = 0
    /\ n_capture = 0
    /\ validations = << >>
    /\ (d_pc = "done" => output.result = result /\ ~output.has_api_guidance)

C1_Witness == classified = "false" /\ d_pc = "done"

\* C6: once the page GET or the page HEAD has failed, whichever completes first,
\* nothing is classified, no asset is fetched and no token is validated; the call
\* returns with shopify = false, no host, empty token lists and the one note
\* "initial fetch failed".
C6_InitialFetchFailure ==
  (get_state = "raised" \/ head_state = "raised") =>
    /\ d_pc \in {"gather", "returned", "done"}
    /\ classified = "none"
    /\ n_asset_gets = 0
    /\ n_capture = 0
    /\ validations = << >>
    /\ result.shopify = FALSE
    /\ result.host = NoHost
    /\ NoTokens(result)
    /\ (Returned =>
          result.notes = << [what |-> "initial fetch failed", about |-> 0] >>)
    /\ (d_pc = "done" => output.result = result)

\* The HEAD fails after the GET has succeeded, and the call has returned.
C6_Witness == get_state = "ok" /\ head_state = "raised" /\ d_pc = "done"

ValidatedTokens == [i \in 1..Len(validations) |-> validations[i].token]

\* C7: no token is passed to _validate_token twice, and when discover_shopify
\* has returned every candidate has been validated exactly once and stands
\* exactly once in tokens_valid and tokens_invalid together.
C7_ValidatedOnce ==
  /\ NoDup(ValidatedTokens)
  /\ (Returned /\ classified = "true") =>
       \A t \in Tokens :
         LET held == IF candidates[t] > 0 THEN 1 ELSE 0 IN
         /\ Count(ValidatedTokens, t) = held
         /\ Count(result.tokens_valid \o result.tokens_invalid, t) = held

\* A token was found more than once, and the call has returned with it validated.
C7_Witness == d_pc = "done" /\ found_again /\ validations # << >>

\* Position of token t in the order of validation.
ValidatedAt(t) == CHOOSE i \in 1..Len(validations) : validations[i].token = t

\* C8: the returned tokens_ranked is in non-increasing order of the number of
\* permissions, and entries with the same number stand in the order in which
\* their tokens were validated.
C8_RankedStable ==
  Returned =>
    \A i, j \in 1..Len(result.tokens_ranked) :
      i < j =>
        LET a == result.tokens_ranked[i]
            b == result.tokens_ranked[j]
        IN  /\ Len(a.permissions) >= Len(b.permissions)
            /\ (Len(a.permissions) = Len(b.permissions)
                  => ValidatedAt(a.token) < ValidatedAt(b.token))

\* Two valid tokens with the same, positive number of permissions are ranked.
C8_Witness ==
  /\ d_pc = "done"
  /\ \E i, j \in 1..Len(result.tokens_ranked) :
       /\ i < j
       /\ Len(result.tokens_ranked[i].permissions) = Len(result.tokens_ranked[j].permissions)
       /\ Len(result.tokens_ranked[i].permissions) > 0

ListingProbe == "unauthenticated_read_product_listings"

\* C9: in the output of shopify_discover, every valid token whose validation
\* recorded the product-listing probe as denied has guidance with an
\* operations_to_avoid entry against direct product queries.
C9_DeniedListingWarned ==
  d_pc = "done" =>
    \A i \in 1..Len(validations) :
      LET v == validations[i] IN
      (v.validation.valid /\ Contains(v.validation.access_denied_errors, ListingProbe)) =>
        \E k \in 1..Len(output.api_guidance) :
          /\ output.api_guidance[k].token = v.token
          /\ Contains(output.api_guidance[k].guidance.operations_to_avoid,
                      "Direct product queries")

(***************************************************************************)
(* Properties of _validate_token (SpecValidate)                            *)
(***************************************************************************)
SentPrefix(n) ==
  << schema_query >> \o [i \in 1..n |-> permission_tests[i].query]

\* C2: the first request of _validate_token is the schema probe; when it raises
\* or its answer lacks the schema marker, the call returns valid = false with
\* empty permissions and empty denied list, and no catalog probe is sent.
C2_LivenessGate ==
  /\ (v_sent # << >> => v_sent[1] = schema_query)
  /\ (v_first \in {"raised", "no_marker"} =>
        /\ v_pc = "returned"
        /\ results = results_init
        /\ v_sent = << schema_query >>)

C2_Witness == v_pc = "returned" /\ v_first = "no_marker" /\ v_sent = << schema_query >>

\* C3: for a live token, when the call returns the token is valid and every probe
\* answered with an access-denied error payload is in the denied list and not in
\* permissions.
C3_DenialRecorded ==
  (v_pc = "returned" /\ v_first = "marker" /\ v_idx > 0) =>
    /\ results.valid
    /\ \A n \in v_denials :
         /\ Contains(results.access_denied_errors, n)
         /\ ~Contains(results.permissions, n)

\* C4: for a live token, when the call returns every probe that failed otherwise
\* than by an explicit denial (network error, non-2xx status, malformed body)
\* is in neither list.
C4_FailureSkipped ==
  (v_pc = "returned" /\ v_idx > 0) =>
    \A n \in v_failures :
      /\ ~Contains(results.access_denied_errors, n)
      /\ ~Contains(results.permissions, n)

\* C5: for a live token, the requests sent are the schema probe and then the
\* catalog probes in catalog order, each once, whatever the earlier probes came
\* back with; the call returns only after the last probe, and valid stays true.
C5_EveryProbeRuns ==
  v_idx > 0 =>
    /\ results.valid
    /\ v_idx <= Len(permission_tests) + 1
    /\ v_sent = SentPrefix(v_idx - 1)
    /\ (v_pc = "returned" <=> v_idx = Len(permission_tests) + 1)

\* The call has returned after the first probe failed and a later one was denied.
C5_Witness ==
  /\ v_pc = "returned"
  /\ permission_tests[1].name \in v_failures
  /\ v_denials # {}
  /\ Len(v_sent) = Len(permission_tests) + 1

(***************************************************************************)
(* Properties of the gateway (SpecGateway)                                 *)
(***************************************************************************)
\* Whether a message names the security-rejection condition.
NamesSecurityRejection(msg) ==
  \/ msg.text = "Shopify Security Rejection"
  \/ msg.reason = "Security Rejection"

NonSuccessAnswered ==
  /\ g_pc = "done"
  /\ mode = "execute"
  /\ g_resp.kind = "http"
  /\ ~Is2xx(g_resp.status)

\* C10: in execute mode a non-2xx upstream status gives an error object with
\* one message, and the message names the security rejection when the status is
\* 430 and only then.
C10_SecurityRejectionNamed ==
  NonSuccessAnswered =>
    /\ g_out.kind = "errors"
    /\ Len(g_out.errors) = 1
    /\ (g_resp.status = 430 <=> NamesSecurityRejection(g_out.errors[1]))

\* The answer carries a non-empty list of errors.
HasErrorPayload(body) == body \in {"errors_denied", "errors_other", "errors_denied_scope",
                                   "errors_syntax"}

TestAnswered == g_pc = "done" /\ mode = "test" /\ g_sent # << >>

\* C11: a test-mode call that reached the platform API returns, whatever the
\* answer, the dict with exactly the keys success, data, errors and guidance, and
\* success is set only for a success status with a JSON object without errors.
C11_TestModeObject ==
  TestAnswered =>
    /\ g_out = result_object
    /\ DOMAIN g_result = {"success", "data", "errors", "guidance"}
    /\ (g_result.success =>
          /\ g_resp.kind = "http"
          /\ Is2xx(g_resp.status)
          /\ IsJsonObject(g_resp.body)
          /\ ~HasErrorPayload(g_resp.body))

\* A test-mode call has returned after the request failed on the network.
C11_Witness == TestAnswered /\ g_resp.kind = "neterr" /\ ~g_result.success

\* What the gateway returns is JSON text of a result object: an error object
\* with a message, the dict of test or introspect mode, or the decoded answer of
\* the platform API.
WellFormedOut(out) ==
  \/ out.kind = "errors" /\ Len(out.errors) >= 1
  \/ out.kind = "result"
  \/ out.kind = "upstream" /\ IsJson(out.body)

\* What shopify_discover returns holds the six fields of the discovery result.
WellFormedOutput(o) ==
  DOMAIN o.result = {"shopify", "host", "tokens_valid", "tokens_ranked", "tokens_invalid",
                     "notes"}

\* C12: no call of shopify_discover ends by raising, and every call of
\* shopify_storefront_graphql and of shopify_discover that has returned has
\* returned a well-formed JSON result object, whatever failed on the way.
C12_AlwaysWellFormed ==
  /\ g_pc = "done" => WellFormedOut(g_out)
  /\ d_pc = "done" => WellFormedOutput(output)
  /\ d_pc # "raised"

Introspecting == mode = "introspect" /\ g_idx > 0

ComponentNames(im) == [i \in 1..Len(test_components(im)) |-> test_components(im)[i].name]

\* C13: in introspect mode every probe done so far has its name exactly once in
\* accessible_components and inaccessible_components together, no other name is
\* in them, and the call returns after the last probe of the catalog, so that
\* the two lists returned are disjoint and cover the catalog.
C13_IntrospectPartition ==
  Introspecting =>
    LET names == ComponentNames(impl)
        filed == g_result.accessible_components \o g_result.inaccessible_components
    IN  /\ \A i \in 1..Len(names) : Count(filed, names[i]) = IF i < g_idx THEN 1 ELSE 0
        /\ Range(filed) \subseteq Range(names)
        /\ (g_pc = "done" <=> g_idx = Len(names) + 1)

\* An introspection has returned in which a probe raised and another succeeded.
C13_Witness ==
  /\ Introspecting
  /\ g_pc = "done"
  /\ g_probe_raised
  /\ g_result.accessible_components # << >>

OnlyCartCreate ==
  /\ Introspecting
  /\ g_pc = "done"
  /\ g_result.accessible_components = << "cart_create" >>
  /\ Contains(g_result.inaccessible_components, "products")

C15_OneClient ==
  /\ n_constructed <= 1
  /\ _http_client = n_constructed
  /\ \A i \in DOMAIN c_calls : c_calls[i].client \in {0, 1}
  /\ \A k \in 1..Len(c_wire) : c_wire[k].client = 1

\* Two calls have obtained the client, the second while the first awaited its
\* answer.
C15_Witness ==
  /\ c_overlap
  /\ n_constructed = 1
  /\ \E i, j \in DOMAIN c_calls : i # j /\ c_calls[i].client = 1 /\ c_calls[j].client = 1

\* C20: every request of a gateway call carries the host and the token of that
\* call, and a gateway call that has returned has returned what execute mode
\* gives for its own host, token and answer, however the calls interleave.
C20_CallsIndependent ==
  /\ \A k \in 1..Len(c_wire) :
       /\ c_wire[k].host = c_calls[c_wire[k].call].host
       /\ c_wire[k].token = c_calls[c_wire[k].call].token
  /\ \A i \in DOMAIN c_calls :
       (c_calls[i].kind = "execute" /\ c_calls[i].pc = "done") =>
         c_calls[i].out = execute_mode(impl, c_calls[i].host, c_calls[i].token,
                                       c_calls[i].answers[1])

\* Two gateway calls with different hosts and tokens have both returned, the
\* second having sent its request while the first awaited its answer.
C20_Witness ==
  /\ c_overlap
  /\ \E i, j \in DOMAIN c_calls :
       /\ c_calls[i].kind = "execute" /\ c_calls[j].kind = "execute"
       /\ c_calls[i].host # c_calls[j].host
       /\ c_calls[i].token # c_calls[j].token
       /\ c_calls[i].pc = "done" /\ c_calls[j].pc = "done"

(***************************************************************************)
(* Further properties of the discovery call (Spec)                         *)
(***************************************************************************)
IsAssetNote(n) == n.what = "asset error"

AssetNotes == SelectSeq(result.notes, IsAssetNote)

C16_State ==
  (classified = "true" /\ d_pc \in {"assets", "capture", "validate", "returned", "done"}) =>
    /\ n_asset_gets = IF d_pc = "assets" THEN a_idx - 1 ELSE Len(assets)
    /\ NoDup(AssetNotes)
    /\ \A k \in 1..Len(AssetNotes) : Contains(assets, AssetNotes[k].about)
    /\ (d_pc \in {"validate", "returned", "done"} => n_capture = 1)
    /\ (Returned => \A t \in Tokens : candidates[t] > 0 => Contains(ValidatedTokens, t))

C16_Step ==
  (d_pc = "assets" /\ Len(result'.notes) > Len(result.notes)) =>
    /\ result'.notes = Append(result.notes, [what |-> "asset error", about |-> assets[a_idx]])
    /\ candidates' = candidates
    /\ a_idx' = a_idx + 1
    /\ d_pc' \in {"assets", "capture"}

\* C16: a failing asset fetch adds one note naming the asset and leaves the
\* candidates as they were, and the loop goes on: every asset is fetched once
\* whether earlier ones failed or not, the capture pass runs once after the last
\* asset, and every candidate is validated before discover_shopify returns.
C16_AssetFailureContained == [][C16_Step]_vars /\ []C16_State

\* The first of two assets failed, the second was fetched, and the call
\* returned with a token validated.
C16_Witness ==
  /\ d_pc = "done"
  /\ Len(assets) = 2
  /\ AssetNotes = << [what |-> "asset error", about |-> assets[1]] >>
  /\ n_asset_gets = 2
  /\ validations # << >>

\* What _validate_token returned for token t.
ValidationOf(t) == validations[ValidatedAt(t)].validation

ValidSet == { t \in Tokens : candidates[t] > 0 /\ ValidationOf(t).valid }

InvalidSet == { t \in Tokens : candidates[t] > 0 /\ ~ValidationOf(t).valid }

\* C17: in whatever order the candidates were validated, the result returned
\* holds as valid exactly the candidates whose validation was valid, as invalid
\* exactly the others, and for each valid token the permissions its own
\* validation returned.
C17_OrderIndependent ==
  (Returned /\ classified = "true") =>
    /\ Range(result.tokens_valid) = ValidSet
    /\ Range(result.tokens_invalid) = InvalidSet
    /\ Len(result.tokens_ranked) = Cardinality(ValidSet)
    /\ \A i \in 1..Len(result.tokens_ranked) :
         /\ result.tokens_ranked[i].token \in ValidSet
         /\ result.tokens_ranked[i].permissions =
              ValidationOf(result.tokens_ranked[i].token).permissions
    /\ \A t \in ValidSet : \E i \in 1..Len(result.tokens_ranked) :
         result.tokens_ranked[i].token = t

\* Two tokens were validated, the greater one first; the first is valid with
\* permissions, the second invalid, and the call has returned.
C17_Witness ==
  /\ d_pc = "done"
  /\ Len(validations) = 2
  /\ validations[1].token > validations[2].token
  /\ validations[1].validation.valid
  /\ validations[1].validation.permissions # << >>
  /\ ~validations[2].validation.valid

\* The same two tokens validated in the other order.
C17_WitnessOtherOrder ==
  /\ d_pc = "done"
  /\ Len(validations) = 2
  /\ validations[1].token < validations[2].token
  /\ ~validations[1].validation.valid
  /\ validations[2].validation.valid

\* The platform header prefixes, as a response spells them.
PlatformPrefixes == {
  << "x", "-", "s", "h", "o", "p", "i", "f", "y" >>,
  << "x", "-", "s", "h", "o", "p" >>,
  << "x", "-", "s", "h", "a", "r", "d", "i", "d" >>,
  << "x", "-", "s", "o", "r", "t", "i", "n", "g", "-", "h", "a", "t" >> }

PlatformHeader(headers) ==
  \E h \in headers : \E p \in PlatformPrefixes : startswith(lower(h), p)

\* C18: the classifier returns true exactly when some header name,
\* case-insensitively, starts with a platform header prefix (as X-Shopify-Stage
\* does) or the HTML matches a content signature.
C18_ClassifierIff ==
  k_pc = "done" => (k_hit <=> (PlatformHeader(k_headers) \/ k_html.signatures # {}))

\* Half of C18: HTML matching a content signature is classified true, whatever
\* the headers.
C18_HtmlSignalSuffices ==
  (k_pc = "done" /\ k_html.signatures # {}) => k_hit

\* The host and the token the call must use: the argument when it is supplied,
\* else the environment's value.
ExpectedHost ==
  IF host_arg # None THEN host_arg
  ELSE IF ENV_STORE = "env-store" THEN "env-store.myshopify.com" ELSE None

ExpectedToken == IF token_arg # None THEN token_arg ELSE ENV_TOKEN

HostOrTokenMissing == ExpectedHost = None \/ ExpectedToken = None

\* C19: every request of the gateway goes to the per-call host with the
\* per-call token when they are supplied, and to the environment's value only
\* for the argument that is absent; when no host or no token exists either way,
\* the call returns the error 'Missing host and/or token', in every mode,
\* having sent no request.
C19_PerCallThenEnvironment ==
  /\ \A i \in 1..Len(g_sent) :
       /\ g_sent[i].host = ExpectedHost
       /\ g_sent[i].token = ExpectedToken
  /\ HostOrTokenMissing => g_sent = << >>
  /\ (HostOrTokenMissing /\ g_pc # "start") =>
       /\ g_pc = "done"
       /\ g_out = [kind |-> "errors",
                   errors |-> << [text |-> "Missing host and/or token", status |-> 0,
                                  reason |-> ""] >>,
                   body |-> "none"]

\* The host came with the call although the environment names a store, the
\* token came from the environment, and the request was sent.
C19_Witness ==
  /\ host_arg # None
  /\ ENV_STORE # None
  /\ token_arg = None
  /\ ENV_TOKEN # None
  /\ g_pc = "done"
  /\ Len(g_sent) > 0

\* Introspect mode was called with a host and no token anywhere, and returned.
C19_WitnessMissing ==
  /\ mode = "introspect"
  /\ host_arg # None
  /\ token_arg = None
  /\ ENV_TOKEN = None
  /\ g_pc = "done"

\* C22: a call of discover_shopify sends at most max_assets asset requests,
\* for every max_assets, 0 included.
C22_AssetCap == n_asset_gets <= max_assets

HasFallback == f_ret.fallback_strategies # << >>

\* C23: generate_api_guidance adds the type-then-search fallback whenever the
\* listing permission is absent and product_types_access or search_access is
\* present (only the one, only the other, or both), and adds no fallback when
\* the listing permission is present.
C23_FallbackStrategy ==
  f_pc = "returned" =>
    LET listing == Contains(f_args.permissions, "unauthenticated_read_product_listings")
        types == Contains(f_args.permissions, "product_types_access")
        search == Contains(f_args.permissions, "search_access")
    IN  /\ (~listing /\ (types \/ search)) => HasFallback
        /\ listing => ~HasFallback

\* Test mode got an answer it could decode and returned.
TestDecoded ==
  /\ g_pc = "done"
  /\ mode = "test"
  /\ g_sent # << >>
  /\ ~test_raises(impl, host, token, g_resp)

\* C24: in test mode, an error list with an access-denied error on a listing
\* query yields the suggestion of the type/search fallback, and one with a
\* syntax error yields the suggestion to check the structure of the operation.
C24_KnownSignaturesGuided ==
  TestDecoded =>
    /\ (HasAccessDenied(g_resp.body) /\ MentionsProducts(query)) =>
         Contains(g_result.guidance.suggestions,
                  "Token lacks permissions to access products directly. Try using search instead.")
    /\ g_resp.body = "errors_syntax" =>
         Contains(g_result.guidance.suggestions,
                  "GraphQL syntax error in query. Check for missing brackets or commas.")

\* The probe operations of the validator's catalog.
CatalogQueries == { permission_tests[i].query : i \in 1..Len(permission_tests) }

\* C25: the probe operations introspect mode sends are those of the catalog
\* _validate_token runs for a live token.
C25_SharedCatalog ==
  (g_pc = "done" /\ mode = "introspect" /\ g_sent # << >>) =>
    { g_sent[i].query : i \in 1..Len(g_sent) } = CatalogQueries

\* The value of Shopify.shop already carries the reserved suffix, in any case.
AlreadyQualified(shop) == \E i \in 1..Len(shop) : LowerPart(shop[i]) = ".myshopify.com"

IsLowerHost(h) == \A i \in 1..Len(h) : h[i] = LowerPart(h[i])

\* C26: _canonical_host returns, lower-cased, the first of: the domain of a
\* structured pattern, the Shopify.shop value (with the reserved suffix
\* appended unless the value is already a qualified domain), the match of the
\* loose scan, the fallback host.
C26_CanonicalPriority ==
  f_pc = "returned" =>
    LET html == f_args.html IN
    /\ IsLowerHost(f_ret)
    /\ f_ret # NoHost
    /\ f_ret =
         IF html.structured # NoMatch THEN LowerHost(html.structured)
         ELSE IF html.shop # NoMatch
           THEN IF AlreadyQualified(html.shop) THEN LowerHost(html.shop)
                ELSE LowerHost(Append(html.shop, ".myshopify.com"))
         ELSE IF html.loose # NoMatch THEN LowerHost(html.loose)
         ELSE LowerHost(f_args.fallback)

\* A credential-context keyword stands in the window of the match.
NearKeyword(m) ==
  \E ctx \in token_contexts : ctx_in(ctx, lower_text(m.keyword), lower_text(m.call))

\* The match lies inside a recognized client-initialization call.
InsideInitCall(m) == m.call # "none" /\ m.inside

\* C27: _token_candidates promotes a token-shaped match to a candidate if and
\* only if its window holds a credential-context keyword or the match lies
\* inside a recognized client-initialization call.
C27_ContextFilter ==
  f_pc = "returned" =>
    \A i \in 1..Len(f_args.text) :
      LET m == f_args.text[i] IN
      (NearKeyword(m) \/ InsideInitCall(m)) <=>
        (promote(m) # << >> /\ Contains(f_ret, m.token))

\* C28: in every result of _validate_token the permissions and the denied
\* list are disjoint, hold names of the probe catalog only and none twice, and
\* both are empty unless the token is valid.
C28_ResultListsWellFormed ==
  /\ Range(results.permissions) \cap Range(results.access_denied_errors) = {}
  /\ Range(results.permissions) \subseteq ProbeNames
  /\ Range(results.access_denied_errors) \subseteq ProbeNames
  /\ NoDup(results.permissions)
  /\ NoDup(results.access_denied_errors)
  /\ ~results.valid =>
       /\ results.permissions = << >>
       /\ results.access_denied_errors = << >>

\* _validate_token returned a valid result with granted and denied probes.
C28_Witness ==
  /\ v_pc = "returned"
  /\ results.valid
  /\ results.permissions # << >>
  /\ results.access_denied_errors # << >>

\* _validate_token returned an invalid result.
C28_WitnessInvalid ==
  /\ v_pc = "returned"
  /\ ~results.valid

\* The deduplicated candidates of the call.
CandidateSet == { t \in Tokens : candidates[t] > 0 }

\* C29: in every result of discover_shopify, tokens_valid and tokens_invalid
\* are disjoint and hold together exactly the deduplicated candidates,
\* tokens_ranked has exactly one entry for each token of tokens_valid, and the
\* output of the tool has api_guidance exactly when tokens_valid is not empty,
\* with one entry for each ranked token, in ranked order.
C29_ResultShape ==
  /\ Returned =>
       /\ Range(result.tokens_valid) \cap Range(result.tokens_invalid) = {}
       /\ Range(result.tokens_valid) \cup Range(result.tokens_invalid) = CandidateSet
       /\ NoDup(result.tokens_valid \o result.tokens_invalid)
       /\ Len(result.tokens_ranked) = Len(result.tokens_valid)
       /\ { result.tokens_ranked[i].token : i \in 1..Len(result.tokens_ranked) }
            = Range(result.tokens_valid)
  /\ d_pc = "done" =>
       /\ output.result = result
       /\ output.has_api_guidance <=> (result.tokens_valid # << >>)
       /\ output.has_api_guidance =>
            /\ Len(output.api_guidance) = Len(result.tokens_ranked)
            /\ \A i \in 1..Len(result.tokens_ranked) :
                 output.api_guidance[i].token = result.tokens_ranked[i].token

\* Two valid tokens are ranked in another order than they were validated in,
\* the second without any permission, and the tool has returned its output.
C29_Witness ==
  /\ d_pc = "done"
  /\ Len(result.tokens_valid) = 2
  /\ result.tokens_ranked[1].token # result.tokens_valid[1]
  /\ result.tokens_ranked[2].permissions = << >>
  /\ output.has_api_guidance

ValidModes == {"execute", "test", "introspect"}

\* The call got past the check of host and token and has returned.
GatewayReturned == g_pc = "done" /\ ~HostOrTokenMissing

IsErrorObject(out) == out.kind = "errors" /\ out.errors # << >>

\* C30: a gateway call with a mode other than execute, test or introspect, or
\* an execute or test call without a query, returns a structured error object
\* and sends no request; a call with a valid mode runs the branch of its mode
\* and no other: execute and test send the one request of the query, test and
\* introspect build the result of their own mode.
C30_ModeDispatch ==
  /\ (mode \notin ValidModes \/ (mode \in {"execute", "test"} /\ query \in {None, ""})) =>
       /\ g_sent = << >>
       /\ g_result = result_none
       /\ g_pc # "start" => (g_pc = "done" /\ IsErrorObject(g_out))
  /\ (GatewayReturned /\ mode = "execute" /\ query \notin {None, ""}) =>
       /\ Len(g_sent) = 1
       /\ g_sent[1].query = query
       /\ g_result = result_none
  /\ (GatewayReturned /\ mode = "test" /\ query \notin {None, ""}) =>
       /\ Len(g_sent) = 1
       /\ g_sent[1].query = query
       /\ DOMAIN g_result = {"success", "data", "errors", "guidance"}
  /\ (GatewayReturned /\ mode = "introspect") =>
       /\ Len(g_sent) = Len(test_components(impl))
       /\ "accessible_components" \in DOMAIN g_result

\* A call with an unknown mode, a host and a token has returned.
C30_Witness ==
  /\ mode \notin ValidModes
  /\ ~HostOrTokenMissing
  /\ g_pc = "done"

\* A test call with an empty query, a host and a token has returned.
C30_WitnessNoQuery ==
  /\ mode = "test"
  /\ query = ""
  /\ ~HostOrTokenMissing
  /\ g_pc = "done"

====
